---- MODULE Spec2Model ----
(***************************************************************************)
(* Model of the chat page of SentraAI_FE: the ChatInput control and the     *)
(* ChatPage conversation controller (handleSend and its suspended           *)
(* continuations at `await fetch(...)` and `await response.json()`).        *)
(*                                                                         *)
(* React state (messages, input, isLoading) is modelled by the value the    *)
(* hook holds once the updates queued by a handler are applied; a handler,  *)
(* the re-render it causes and that render's effect are one step.  A key    *)
(* press is one step too: the keydown handler and, when it leaves the       *)
(* default action in place, the form's implicit submission.  threadIdRef is *)
(* the ref's .current.  Every invocation of handleSend is an entry of `calls`, so     *)
(* that two invocations in flight at once are representable.                *)
(***************************************************************************)
EXTENDS Integers, Sequences, FiniteSets, TLC

VARIABLES
    messages,     \* useState<Message[]>([])            part_000:92
    input,        \* useState('')                       part_000:93
    isLoading,    \* useState(false)                    part_000:94
    threadIdRef,  \* useRef<string | null>(null)        part_000:95
    calls,        \* position of every handleSend invocation
    history,      \* accepted submits, requests sent, replies handled, in order
    lastEvent,    \* the event the last step handled
    view,         \* the chat bubbles of the last render  part_000:160-163
    scrollTop     \* chatContainerRef.current.scrollTop, in bubbles

vars ==
    <<messages, input, isLoading, threadIdRef, calls, history, lastEvent,
      view, scrollTop>>

prog == <<messages, input, isLoading, threadIdRef, calls, history>>

-----------------------------------------------------------------------------
(* Bounds *)

\* handleSend is invoked at most MaxCalls times in a behaviour
MaxCalls == 2

-----------------------------------------------------------------------------
(* JavaScript values: strings are sequences of one-character strings *)

JNull == [tag |-> "null", val |-> <<>>]

JUndef == [tag |-> "undefined", val |-> <<>>]

JStr(s) == [tag |-> "string", val |-> s]

JObj(f) == [tag |-> "object", val |-> f]

\* property access obj.k on a parsed JSON object: undefined when k is absent
Get(obj, k) == IF k \in DOMAIN obj.val THEN obj.val[k] ELSE JUndef

\* JavaScript truthiness of the values that occur: '' , null and undefined are falsy
Truthy(v) ==
    CASE v.tag = "string" -> v.val # <<>>
      [] v.tag = "object" -> TRUE
      [] OTHER -> FALSE

\* JSON.stringify of an object literal: a key whose value is undefined is omitted
Stringify(obj) ==
    JObj([k \in {j \in DOMAIN obj : obj[j].tag # "undefined"} |-> obj[k]])

WhiteSpace == {" ", "\t", "\n"}

RECURSIVE TrimStart(_)
TrimStart(s) ==
    IF s # <<>> /\ Head(s) \in WhiteSpace THEN TrimStart(Tail(s)) ELSE s

RECURSIVE TrimEnd(_)
TrimEnd(s) ==
    IF s # <<>> /\ s[Len(s)] \in WhiteSpace
    THEN TrimEnd(SubSeq(s, 1, Len(s) - 1))
    ELSE s

Trim_Identity(s) == s

\* String.prototype.trim
Trim(s) == TrimEnd(TrimStart(s))

-----------------------------------------------------------------------------
(* Inputs *)

\* what the user may have typed into the text field
Texts ==
    { <<>>, <<" ", "\t">>, <<"h", "i">>, <<" ", "y", "o", " ">> }

Keys == {"Enter", "a"}

T1 == <<"t", "1">>

\* a JSON object with the two fields the page reads, each present or not
Body(r, t) == Stringify([response |-> r, thread_id |-> t])

\* JSON objects the remote service may answer with: no reply field, an empty
\* reply, a reply without thread_id, a reply with thread_id
Bodies ==
    { Body(JUndef, JStr(T1)),
      Body(JStr(<<>>), JStr(T1)),
      Body(JStr(<<"o", "k">>), JUndef),
      Body(JStr(<<"o", "k">>), JStr(T1)) }

-----------------------------------------------------------------------------
(* State after construction *)

Ev(type, key, shift) == [type |-> type, key |-> key, shift |-> shift]

Init ==
    /\ messages = <<>>
    /\ input = <<>>
    /\ isLoading = FALSE
    /\ threadIdRef = JNull
    /\ calls = <<>>
    /\ history = <<>>
    /\ lastEvent = Ev("mount", "", FALSE)
    /\ view = <<>>
    /\ scrollTop = 0

-----------------------------------------------------------------------------
(* ChatPage render and its effect *)

ThinkingBubble ==
    [text |-> <<"T","h","i","n","k","i","n","g",".",".",".">>, sender |-> "ai"]

RenderedBubbles_AlwaysThinking(msgs, loading) == msgs \o <<ThinkingBubble>>

\* messages.map(ChatBubble), then the transient bubble while isLoading
RenderedBubbles(msgs, loading) ==
    msgs \o (IF loading THEN <<ThinkingBubble>> ELSE <<>>)

ScrollEffect_MountOnly == UNCHANGED scrollTop

\* useEffect(..., [messages]): after a render with a new list,
\* scrollTop = scrollHeight
ScrollEffect ==
    scrollTop' = IF messages' # messages THEN Len(view') ELSE scrollTop

Render ==
    /\ view' = RenderedBubbles(messages', isLoading')
    /\ ScrollEffect

-----------------------------------------------------------------------------
(* ChatPage.handleSend up to the first await *)

Outstanding == {k \in DOMAIN calls : calls[k] # "done"}

RequestBody_NullThread ==
    Stringify([message |-> JStr(input), thread_id |-> JNull])

RequestBody_ClearedInput ==
    Stringify([message |-> JStr(<<>>), thread_id |-> threadIdRef])

RequestBody ==
    Stringify([message |-> JStr(input), thread_id |-> threadIdRef])

UserMessage_Trimmed == [text |-> Trim(input), sender |-> "user"]

UserMessage == [text |-> input, sender |-> "user"]

handleSend_ResetList(h) ==
    IF Trim(input) = <<>>
    THEN /\ history' = h
         /\ UNCHANGED <<messages, input, isLoading, threadIdRef, calls>>
    ELSE /\ messages' = <<UserMessage>>
         /\ input' = <<>>
         /\ isLoading' = TRUE
         /\ calls' = Append(calls, "fetch")
         /\ history' = Append(h, [type |-> "request", call |-> Len(calls) + 1,
                                  body |-> RequestBody])
         /\ UNCHANGED threadIdRef

handleSend(h) ==
    IF Trim(input) = <<>>
    THEN /\ history' = h
         /\ UNCHANGED <<messages, input, isLoading, threadIdRef, calls>>
    ELSE /\ messages' = Append(messages, UserMessage)
         /\ input' = <<>>
         /\ isLoading' = TRUE
         /\ calls' = Append(calls, "fetch")
         /\ history' = Append(h, [type |-> "request", call |-> Len(calls) + 1,
                                  body |-> RequestBody])
         /\ UNCHANGED threadIdRef

(* ChatInput *)

CanSend_NoPendingCheck == Trim(input) # <<>>

\* the guard of both submit handlers
CanSend == ~isLoading /\ Trim(input) # <<>>

onSend == handleSend(Append(history, [type |-> "submit", text |-> input]))

IsSubmitKey(key, shift) == key = "Enter" /\ ~shift

\* the body of handleSubmit
SubmitHandler == IF CanSend THEN onSend ELSE UNCHANGED prog

\* disabled={isLoading || !value.trim()} of the submit button
ButtonDisabled == isLoading \/ Trim(input) = <<>>

\* Enter in the text field of a form, default action not prevented: the form's
\* default button is activated unless it is disabled, which fires onSubmit
ImplicitSubmission ==
    IF ButtonDisabled THEN UNCHANGED prog ELSE SubmitHandler

handleKeyDown(key, shift) ==
    /\ (key = "Enter" /\ CanSend) => Len(calls) < MaxCalls
    /\ lastEvent' = Ev("keydown", key, shift)
    /\ IF IsSubmitKey(key, shift)
       THEN IF CanSend THEN onSend ELSE UNCHANGED prog
       ELSE IF key = "Enter" THEN ImplicitSubmission ELSE UNCHANGED prog
    /\ Render

handleSubmit ==
    /\ CanSend => Len(calls) < MaxCalls
    /\ lastEvent' = Ev("submit", "", FALSE)
    /\ SubmitHandler
    /\ Render

onChange(v) ==
    /\ lastEvent' = Ev("change", "", FALSE)
    /\ input' = v
    /\ UNCHANGED <<messages, isLoading, threadIdRef, calls, history>>
    /\ Render

-----------------------------------------------------------------------------
(* ChatPage.handleSend after an await *)

errorMessage ==
    [text |-> <<"S","o","r","r","y",","," ","I"," ","c","o","u","l","d","n","'","t",
                " ","c","o","n","n","e","c","t"," ","t","o"," ","t","h","e"," ",
                "s","e","r","v","e","r","."," ","P","l","e","a","s","e"," ",
                "t","r","y"," ","a","g","a","i","n"," ","l","a","t","e","r",".">>,
     sender |-> "ai"]

Reply(k, kind, data) == [type |-> "reply", call |-> k, kind |-> kind, data |-> data]

Finally_KeepLoading(k) ==
    /\ UNCHANGED isLoading
    /\ calls' = [calls EXCEPT ![k] = "done"]

Finally(k) ==
    /\ isLoading' = FALSE
    /\ calls' = [calls EXCEPT ![k] = "done"]

Catch_ClearThread(k) ==
    /\ messages' = Append(messages, errorMessage)
    /\ threadIdRef' = JNull
    /\ UNCHANGED input
    /\ Finally(k)

Catch_NoMessage(k) ==
    /\ UNCHANGED <<messages, input, threadIdRef>>
    /\ Finally(k)

Catch(k) ==
    /\ messages' = Append(messages, errorMessage)
    /\ UNCHANGED <<input, threadIdRef>>
    /\ Finally(k)

Accepted_NoCheck(data) == TRUE

\* if (data.response)
Accepted(data) == Truthy(Get(data, "response"))

FetchRejects_Retry(k) ==
    /\ calls[k] = "fetch"
    /\ lastEvent' = Ev("fetchRejects", "", FALSE)
    /\ LET r == CHOOSE i \in DOMAIN history :
                    history[i].type = "request" /\ history[i].call = k
       IN  history' = Append(Append(history, Reply(k, "reject", JUndef)), history[r])
    /\ UNCHANGED <<messages, input, isLoading, threadIdRef, calls>>
    /\ Render

FetchRejects(k) ==
    /\ calls[k] = "fetch"
    /\ lastEvent' = Ev("fetchRejects", "", FALSE)
    /\ history' = Append(history, Reply(k, "reject", JUndef))
    /\ Catch(k)
    /\ Render

FetchResolves(k, ok) ==
    /\ calls[k] = "fetch"
    /\ lastEvent' = Ev("fetchResolves", "", ok)
    /\ IF ~ok
       THEN /\ history' = Append(history, Reply(k, "status", JUndef))
            /\ Catch(k)
       ELSE /\ calls' = [calls EXCEPT ![k] = "json"]
            /\ UNCHANGED <<messages, input, isLoading, threadIdRef, history>>
    /\ Render

JsonRejects(k) ==
    /\ calls[k] = "json"
    /\ lastEvent' = Ev("jsonRejects", "", FALSE)
    /\ history' = Append(history, Reply(k, "unparsable", JUndef))
    /\ Catch(k)
    /\ Render

JsonResolves(k, data) ==
    /\ calls[k] = "json"
    /\ lastEvent' = Ev("jsonResolves", "", FALSE)
    /\ history' = Append(history, Reply(k, "json", data))
    /\ IF Accepted(data)
       THEN /\ messages' = Append(messages, [text |-> Get(data, "response").val,
                                             sender |-> "ai"])
            /\ threadIdRef' = Get(data, "thread_id")
            /\ UNCHANGED input
            /\ Finally(k)
       ELSE Catch(k)
    /\ Render

-----------------------------------------------------------------------------

Next ==
    \/ \E key \in Keys, shift \in BOOLEAN : handleKeyDown(key, shift)
    \/ handleSubmit
    \/ \E v \in Texts : onChange(v)
    \/ \E k \in DOMAIN calls : FetchRejects(k)
    \/ \E k \in DOMAIN calls, ok \in BOOLEAN : FetchResolves(k, ok)
    \/ \E k \in DOMAIN calls : JsonRejects(k)
    \/ \E k \in DOMAIN calls, data \in Bodies : JsonResolves(k, data)

Spec == Init /\ [][Next]_vars

\* the outstanding request is eventually answered: one of the continuations
\* of the two awaits runs
NetworkReply ==
    \E k \in DOMAIN calls :
        \/ FetchRejects(k)
        \/ \E ok \in BOOLEAN : FetchResolves(k, ok)
        \/ JsonRejects(k)
        \/ \E data \in Bodies : JsonResolves(k, data)

FairSpec == Spec /\ WF_vars(NetworkReply)

-----------------------------------------------------------------------------
(* Vocabulary of the properties, read off the recorded history *)

Last(s) == s[Len(s)]

Requests == SelectSeq(history, LAMBDA e : e.type = "request")

Replies == SelectSeq(history, LAMBDA e : e.type = "reply")

Submits == SelectSeq(history, LAMBDA e : e.type = "submit")

IsBlank(s) == \A i \in DOMAIN s : s[i] \in WhiteSpace

\* the step handles a keypress or a form submit
SubmitAttempt == lastEvent'.type \in {"keydown", "submit"}

\* the step handles the end of a round trip
ReplyStep ==
    /\ Len(history') = Len(history) + 1
    /\ Last(history').type = "reply"

HasReplyField(e) ==
    e.type = "reply" /\ e.kind = "json" /\ "response" \in DOMAIN e.data.val

\* a 2xx reply whose body carries a non-empty reply text
ServerSuccess(e) == HasReplyField(e) /\ e.data.val["response"].val # <<>>

\* the three failure kinds: transport failure, non-2xx status, 2xx body
\* without the reply field
FailureKind(e) ==
    /\ e.type = "reply"
    /\ \/ e.kind \in {"reject", "status"}
       \/ e.kind = "json" /\ "response" \notin DOMAIN e.data.val

Max(S) == CHOOSE m \in S : \A n \in S : n <= m

\* the thread_id of the latest successful reply recorded before position i
LatestThreadId(i) ==
    LET S == {j \in 1..(i - 1) : ServerSuccess(history[j])}
    IN  IF S = {} THEN JNull ELSE Get(history[Max(S)].data, "thread_id")

-----------------------------------------------------------------------------
\* C1: in every reachable state at most one invocation of handleSend has a
\* request outstanding (issued and not yet handled to its finally block).
C1_AtMostOneOutstanding == Cardinality(Outstanding) <= 1

\* a second submit attempt arrived while the second request was outstanding
C1_Witness ==
    /\ Len(calls) = 2
    /\ Cardinality(Outstanding) = 1
    /\ lastEvent.type = "submit"
    /\ ~IsBlank(input)

\* C2: isLoading is true exactly when one round trip is outstanding.
C2_PendingIffOutstanding == isLoading <=> Cardinality(Outstanding) = 1

\* pending in the middle of a round trip (between the two awaits), after an
\* earlier round trip has cleared it
C2_Witness ==
    /\ Len(calls) = 2
    /\ calls[1] = "done"
    /\ calls[2] = "json"
    /\ isLoading

\* C3: when every round trip so far was answered successfully and none is
\* outstanding, after N round trips the list has 2N messages, the k-th pair
\* being the k-th submitted text (user) then the k-th reply text (ai).
C3_AlternatingPairs ==
    (Outstanding = {} /\ \A i \in DOMAIN Replies : ServerSuccess(Replies[i])) =>
        LET N == Len(Replies) IN
        /\ Len(Submits) = N
        /\ Len(messages) = 2 * N
        /\ \A k \in 1..N :
            /\ messages[2 * k - 1] = [text |-> Submits[k].text, sender |-> "user"]
            /\ messages[2 * k] =
                   [text |-> Replies[k].data.val["response"].val, sender |-> "ai"]

\* two successful round trips with different texts, one of them padded
C3_Witness ==
    /\ Outstanding = {}
    /\ Len(Replies) = 2
    /\ \A i \in DOMAIN Replies : ServerSuccess(Replies[i])
    /\ Len(messages) = 4
    /\ messages[1].text = <<" ", "y", "o", " ">>
    /\ messages[3].text = <<"h", "i">>

\* C4: a keypress or form submit handled while the input is empty or only
\* whitespace changes nothing and issues no request.
C4_BlankSubmitIsNoOp ==
    [][(SubmitAttempt /\ IsBlank(input)) => UNCHANGED prog]_vars

\* a form submit was handled with whitespace-only text while idle
C4_Witness ==
    /\ lastEvent.type = "submit"
    /\ input = <<" ", "\t">>
    /\ ~isLoading
    /\ Len(messages) = 2

\* C5: while pending, a keypress or form submit changes neither the list nor
\* the thread identifier and issues no request, whatever the input text.
C5_PendingSubmitIsNoOp ==
    [][(SubmitAttempt /\ isLoading) =>
          UNCHANGED <<messages, threadIdRef, calls, history>>]_vars

\* Enter was pressed with sendable text while a request was outstanding
C5_Witness ==
    /\ isLoading
    /\ lastEvent = Ev("keydown", "Enter", FALSE)
    /\ ~IsBlank(input)
    /\ Len(messages) = 1

\* C6: each of the three failure kinds ends the round trip the same way: the
\* fallback message is appended, pending is cleared, nothing else changes.
C6_FailuresCollapse ==
    [][(ReplyStep /\ FailureKind(Last(history'))) =>
          /\ messages' = Append(messages, errorMessage)
          /\ isLoading' = FALSE
          /\ Outstanding' = Outstanding \ {Last(history').call}
          /\ UNCHANGED <<input, threadIdRef>>]_vars

\* a transport failure and then a 2xx body without the reply field, each
\* answered by the fallback message
C6_Witness ==
    /\ Len(Replies) = 2
    /\ Replies[1].kind = "reject"
    /\ Replies[2].kind = "json"
    /\ FailureKind(Replies[2])
    /\ Len(messages) = 4
    /\ messages[2] = errorMessage
    /\ messages[4] = errorMessage
    /\ ~isLoading

C8_ThreadChangesOnlyOnSuccess ==
    [][threadIdRef' # threadIdRef =>
          ReplyStep /\ ServerSuccess(Last(history'))]_vars

\* an unparsable body was handled and the identifier t1 survived it
C8_Witness ==
    /\ lastEvent.type = "jsonRejects"
    /\ threadIdRef = JStr(T1)
    /\ Len(Replies) = 2

\* C9: a 2xx reply whose body has the response field, whatever string it
\* holds, appends that string as the assistant message, stores the reply's
\* thread_id and clears pending.
C9_ReplyFieldMeansSuccess ==
    [][(ReplyStep /\ HasReplyField(Last(history'))) =>
          /\ messages' = Append(messages,
                 [text |-> Last(history').data.val["response"].val, sender |-> "ai"])
          /\ threadIdRef' = Get(Last(history').data, "thread_id")
          /\ isLoading' = FALSE]_vars

\* C10: the stored thread identifier is null or a string, and every request
\* body has a thread_id field holding a string or null.
C10_ThreadIdStringOrNull ==
    /\ threadIdRef.tag \in {"null", "string"}
    /\ \A i \in DOMAIN Requests :
        /\ "thread_id" \in DOMAIN Requests[i].body.val
        /\ Requests[i].body.val["thread_id"].tag \in {"null", "string"}

IsPrefix(s, t) == Len(s) <= Len(t) /\ SubSeq(t, 1, Len(s)) = s

\* C11: the message list is append-only: across every step the old list is a
\* prefix of the new one.
C11_AppendOnly == [][IsPrefix(messages, messages')]_vars

\* a list that grew through a submit, a failed reply, a submit and a
\* successful reply
C11_Witness ==
    /\ Len(messages) = 4
    /\ messages[2] = errorMessage
    /\ messages[4].text = <<"o", "k">>
    /\ lastEvent.type = "jsonResolves"

\* C12: if the network answers every outstanding request (weak fairness on
\* the continuations of the two awaits, an unparsable body included), pending
\* never stays true forever: whenever isLoading holds it is later false.
C12_PendingEventuallyCleared == isLoading ~> ~isLoading

\* the second round trip ended on a body that could not be parsed and left
\* the controller idle
C12_Witness ==
    /\ lastEvent.type = "jsonRejects"
    /\ Len(Replies) = 2
    /\ Outstanding = {}
    /\ ~isLoading
    /\ view = messages

\* the step handles a form submit or an Enter keypress while idle with
\* sendable text
AcceptedSubmit ==
    /\ \/ lastEvent'.type = "submit"
       \/ lastEvent'.type = "keydown" /\ lastEvent'.key = "Enter"
    /\ ~isLoading
    /\ ~IsBlank(input)

\* C13: a request is issued in exactly the steps that handle an accepted
\* user submission, one request per submission; no other step (a reply, a
\* failed round trip, an input change, a suppressed submit) issues one.
C13_RequestsOnlyOnSubmit ==
    [][/\ Len(Requests') = Len(Requests) + (IF AcceptedSubmit THEN 1 ELSE 0)
       /\ Len(Requests') = Len(Submits')]_vars

\* a failed round trip, then events that issued nothing, then a request
\* issued by the user's second submission
C13_Witness ==
    /\ Len(history) = 5
    /\ history[3].type = "reply"
    /\ history[3].kind = "status"
    /\ history[4].type = "submit"
    /\ history[5].type = "request"
    /\ Len(messages) = 3
    /\ lastEvent.type = "submit"

\* C14: a valid submit while idle appends one user message holding the input
\* text as typed, empties the input, sets pending and issues one POST whose
\* message is that text and whose thread_id is the stored identifier.
C14_ValidSubmitTransition ==
    [][AcceptedSubmit =>
          /\ messages' = Append(messages, [text |-> input, sender |-> "user"])
          /\ input' = <<>>
          /\ isLoading' = TRUE
          /\ threadIdRef' = threadIdRef
          /\ Cardinality(Outstanding') = Cardinality(Outstanding) + 1
          /\ Len(Requests') = Len(Requests) + 1
          /\ Get(Last(Requests').body, "message") = JStr(Last(messages').text)
          /\ Get(Last(Requests').body, "thread_id") = threadIdRef]_vars

\* Enter was pressed on padded text after a round trip that stored t1: the
\* third message is the text as typed and the request carries it with t1
C14_Witness ==
    /\ lastEvent = Ev("keydown", "Enter", FALSE)
    /\ Len(messages) = 3
    /\ isLoading
    /\ input = <<>>
    /\ Last(history).type = "request"
    /\ messages[3] = [text |-> <<" ", "y", "o", " ">>, sender |-> "user"]
    /\ threadIdRef = JStr(T1)
    /\ Last(history).body.val["thread_id"] = JStr(T1)
    /\ Last(history).body.val["message"] = JStr(<<" ", "y", "o", " ">>)

\* C15: a keypress results in a submission only when the key is Enter, shift
\* is not held and the submit is not suppressed, and then in exactly one;
\* every other keypress, Shift+Enter included, results in none.
C15_OnlyPlainEnterSubmits ==
    [][lastEvent'.type = "keydown" =>
          Len(Submits') - Len(Submits) =
              IF /\ lastEvent'.key = "Enter"
                 /\ ~lastEvent'.shift
                 /\ ~isLoading
                 /\ ~IsBlank(input)
              THEN 1 ELSE 0]_vars

C17_AlternationAndParity ==
    /\ \A i \in DOMAIN messages :
           messages[i].sender = IF i % 2 = 1 THEN "user" ELSE "ai"
    /\ isLoading <=> Len(messages) % 2 = 1
    /\ Len(messages) = Len(Requests) + Len(Replies)
    /\ \A k \in DOMAIN Replies :
           messages[2 * k] =
               IF ServerSuccess(Replies[k])
               THEN [text |-> Replies[k].data.val["response"].val, sender |-> "ai"]
               ELSE errorMessage

\* a successful round trip followed by a failed one
C17_Witness ==
    /\ Len(messages) = 4
    /\ messages[2].text = <<"o", "k">>
    /\ messages[4] = errorMessage
    /\ ~isLoading
    /\ Len(Replies) = 2

\* C18: the "Thinking..." bubble is rendered exactly while pending; it is
\* never an element of the message list nor the message of a request, and
\* when pending is false the view shows the message list and nothing else.
C18_ThinkingBubbleTransient ==
    /\ isLoading <=> \E i \in DOMAIN view : view[i] = ThinkingBubble
    /\ \A i \in DOMAIN messages : messages[i] # ThinkingBubble
    /\ \A i \in DOMAIN Requests :
           Get(Requests[i].body, "message") # JStr(ThinkingBubble.text)
    /\ ~isLoading => view = messages

\* the bubble was shown during the round trip and is gone after the fallback
\* message replaced it
C18_Witness ==
    /\ lastEvent.type = "fetchRejects"
    /\ ~isLoading
    /\ Len(view) = 2
    /\ view[2] = errorMessage
    /\ view = messages

====
